---- MODULE Spec2Model ----
(***************************************************************************)
(* Model of src/simuation/src/biased_rw.py: a one-dimensional biased       *)
(* random walk between two absorbing barriers (rw_absorbing), the Monte    *)
(* Carlo estimator of the absorption probability at the lower barrier      *)
(* (pj), the sweep over starting sites (distribution) and the closed-form  *)
(* predictions (pj_as, pj_s, pj_as_thermo).                                *)
(*                                                                         *)
(* Numbers.  Positions, barriers and walker counts are Python ints, as the *)
(* docstring of rw_absorbing requires ("integrers"), so int() at lines     *)
(* 21-23 and 53-55 leaves them as they are.  Probabilities and random      *)
(* draws are counted in quarters: the value v stands for v/4, so One is    *)
(* the literal 1 and Half the literal 0.5 of the source.  Quotients are    *)
(* exact fractions <<num, den>> in lowest terms with den > 0.              *)
(*                                                                         *)
(* The global generator.  np.random is one module-level Mersenne Twister.  *)
(* Its state is a function of the last seed and of the number of draws     *)
(* taken since; its output for a given (seed, draw index) is a fixed but   *)
(* unknown number of [0,1).  mt records the outputs observed so far: the   *)
(* first draw at a (seed, index) may be any value of Draws, every later    *)
(* draw at the same (seed, index) repeats it.  Seeds are integers that    *)
(* np.random.seed accepts (0 .. 2^32 - 1).                                 *)
(***************************************************************************)
EXTENDS Integers, Sequences, FiniteSets, TLC

\* Largest barrier position explored; barriers range over 0..MaxB.
MaxB == 3
\* Largest number of walkers n explored; n ranges over -1..MaxN.
MaxN == 2
\* Draws the generator serves per seed before the exploration stops.
MaxDraws == 3

\* The literal 1 of `r > 1` (line 30), in quarters.
One == 4
\* The literal 0.5 of `r <= 0.5` (line 132), in quarters.
Half == 2

VARIABLES
    cfg,    \* the arguments the calls of this behaviour are made with
    rng,    \* np.random's global state: the last seed and the draws since
    mt,     \* the generator's outputs observed so far, per (seed, index)
    walk,   \* the frame of rw_absorbing
    est,    \* the frame of pj
    dst,    \* the frame of distribution
    thy,    \* the frame of pj_as, pj_s or pj_as_thermo
    ret,    \* what the last top-level call returned or raised
    seen    \* the first completed rw_absorbing and pj calls, as recorded

vars == <<cfg, rng, mt, walk, est, dst, thy, ret, seen>>

----------------------------------------------------------------------------
\* Values

Barriers == 0..MaxB
Starts == -1..(MaxB + 1)
\* -0.25, 0, 0.5, 1, 1.25
Biases == {-1, 0, Half, One, One + 1}
\* Values of [0,1): the least one, 0.0, and 0.75.  Line 37 only compares a
\* draw with r, and for each r of Biases these two give both answers of the
\* comparison that r allows.
Draws == {0, One - 1}
Seeds == 0..(MaxN - 1)
Counts == -1..MaxN

None == [kind |-> "none"]
Off == [pc |-> "off"]

----------------------------------------------------------------------------
\* np.random: the global generator

\* np.random.seed(seed): the state becomes that of a fresh stream `seed`.
ReseedSkipped(g, seed) == g
Reseed(g, seed) == [seeded |-> TRUE, seed |-> seed, idx |-> 0]

\* The generator of a fresh interpreter: seeded by the system, not by a call.
Unseeded == [seeded |-> FALSE, seed |-> 0, idx |-> 0]

\* Whether the output at the generator's (seed, index) was observed before.
Observed(table, g) == g.seeded /\ g.idx \in DOMAIN table[g.seed]

\* The value np.random.random() may return in the current state: the one
\* already observed at this (seed, index) if any, else any value of [0,1).
CanDraw(u) ==
    /\ rng.idx < MaxDraws
    /\ u \in Draws
    /\ Observed(mt, rng) => u = mt[rng.seed][rng.idx]

\* The generator after np.random.random() returned u from state g.
Advance(g) == [g EXCEPT !.idx = @ + 1]
Observe(table, g, u) ==
    IF ~g.seeded THEN table
    ELSE [table EXCEPT ![g.seed] = (g.idx :> u) @@ @]

----------------------------------------------------------------------------
\* rw_absorbing(j, a, b, r, seed)

\* Lines 26-31: the message of the ValueError raised, or "ok".
ChecksNoUpper(j, a, b, r) ==
    IF a >= b THEN "must be a < b"
    ELSE IF j < a THEN "must be a <= j <= b"
    ELSE IF r < 0 \/ r > One
        THEN "must be 0<=r<=1, because it is a probability"
    ELSE "ok"
Checks(j, a, b, r) ==
    IF a >= b THEN "must be a < b"
    ELSE IF j < a \/ j > b THEN "must be a <= j <= b"
    ELSE IF r < 0 \/ r > One
        THEN "must be 0<=r<=1, because it is a probability"
    ELSE "ok"

\* Line 36: the loop condition.
InsideLoose(position, a, b) == position >= a /\ position < b
Inside(position, a, b) == position > a /\ position < b

\* Line 37: the walker steps right when the draw u is <= r.
StepsRight(u, r) == u <= r

\* Lines 37-40: the position after one iteration with draw u.
Move(position, u, r) ==
    IF StepsRight(u, r) THEN position + 1 ELSE position - 1

\* Lines 21-34: the frame after the checks, the seeding and `position = j`;
\* pc is "raised" (a ValueError left the function), "loop" (at line 36 with
\* the condition true) or "done" (at line 42).  traj lists the positions
\* taken, draws the values drawn, rng0 is the generator as the call found it.
Enter(j, a, b, r, seed) ==
    LET c == Checks(j, a, b, r) IN
    IF c # "ok"
    THEN [pc |-> "raised", j |-> j, a |-> a, b |-> b, r |-> r, seed |-> seed,
          position |-> j, traj |-> <<>>, draws |-> <<>>, error |-> c,
          rng0 |-> rng]
    ELSE [pc |-> IF Inside(j, a, b) THEN "loop" ELSE "done",
          j |-> j, a |-> a, b |-> b, r |-> r, seed |-> seed,
          position |-> j, traj |-> <<j>>, draws |-> <<>>, error |-> "ok",
          rng0 |-> rng]

\* The generator after lines 21-34: seeded only when the checks passed.
EnterRng(g, j, a, b, r, seed) ==
    IF Checks(j, a, b, r) # "ok" THEN g ELSE Reseed(g, seed)

\* Lines 36-40: one iteration of the loop, then the loop condition again.
RwStep ==
    /\ walk.pc = "loop"
    /\ \E u \in Draws :
        /\ CanDraw(u)
        /\ LET p == Move(walk.position, u, walk.r) IN
           walk' = [walk EXCEPT
                      !.position = p,
                      !.traj = Append(@, p),
                      !.draws = Append(@, u),
                      !.pc = IF Inside(p, walk.a, walk.b)
                             THEN "loop" ELSE "done"]
        /\ mt' = Observe(mt, rng, u)
        /\ rng' = Advance(rng)
    /\ UNCHANGED <<thy, cfg, est, dst, ret, seen>>

\* A top-level call rw_absorbing(cfg.j, cfg.a, cfg.b, cfg.r, cfg.seed).
Idle ==
    walk.pc = "off" /\ est.pc = "off" /\ dst.pc = "off" /\ thy.pc = "off"

RwCall ==
    /\ Idle
    /\ walk' = Enter(cfg.j, cfg.a, cfg.b, cfg.r, cfg.seed)
    /\ rng' = EnterRng(rng, cfg.j, cfg.a, cfg.b, cfg.r, cfg.seed)
    /\ ret' = None
    /\ UNCHANGED <<thy, cfg, mt, est, dst, seen>>

\* What the caller of a finished rw_absorbing receives.
Outcome(w) ==
    IF w.pc = "raised"
    THEN [kind |-> "ValueError", msg |-> w.error]
    ELSE [kind |-> "value", val |-> w.position]

\* The record of a completed rw_absorbing call.
RunOf(w) == [j |-> w.j, a |-> w.a, b |-> w.b, r |-> w.r, seed |-> w.seed,
             traj |-> w.traj, out |-> Outcome(w)]

\* Line 42 or a raise, back in the top-level caller.
RwReturn ==
    /\ walk.pc \in {"done", "raised"}
    /\ est.pc = "off"
    /\ ret' = Outcome(walk)
    /\ seen' = IF seen.rw = None /\ walk.pc = "done"
               THEN [seen EXCEPT !.rw = RunOf(walk)] ELSE seen
    /\ walk' = Off
    /\ UNCHANGED <<thy, cfg, rng, mt, est, dst>>

\* Other code draws from, or reseeds, the global generator between calls.
OtherDraw ==
    /\ Idle
    /\ rng.idx < MaxDraws
    /\ rng' = Advance(rng)
    /\ UNCHANGED <<thy, cfg, mt, walk, est, dst, ret, seen>>

OtherSeed ==
    /\ Idle
    /\ \E s \in Seeds : rng' = Reseed(rng, s)
    /\ rng' # rng
    /\ UNCHANGED <<thy, cfg, mt, walk, est, dst, ret, seen>>

----------------------------------------------------------------------------
\* Exact quotients

RECURSIVE Gcd(_, _)
Gcd(x, y) == IF y = 0 THEN x ELSE Gcd(y, x % y)

Abs(x) == IF x < 0 THEN -x ELSE x

\* p / q for q # 0, in lowest terms with a positive denominator.
Frac(p, q) ==
    LET g == Gcd(Abs(p), Abs(q))
        sgn == IF q < 0 THEN -1 ELSE 1
    IN  <<(sgn * p) \div g, (sgn * q) \div g>>

Zero == Frac(0, 1)
Unit == Frac(1, 1)
Minus(x, y) == Frac(x[1] * y[2] - y[1] * x[2], x[2] * y[2])
\* x / y for y # 0.
Over(x, y) == Frac(x[1] * y[2], x[2] * y[1])
\* x ** k for an integer k, x # 0 when k < 0.
RECURSIVE Power(_, _)
Power(x, k) ==
    IF k = 0 THEN Unit
    ELSE IF k < 0 THEN Over(Unit, Power(x, -k))
    ELSE LET h == Power(x, k - 1) IN Frac(x[1] * h[1], x[2] * h[2])
\* The probability written v in quarters.
Prob(v) == Frac(v, One)
InUnitInterval(f) == 0 <= f[1] /\ f[1] <= f[2]

----------------------------------------------------------------------------
\* pj(j, a, b, r, n)

\* A dict display {k1 : v1, k2 : v2}: the later key wins when k1 = k2.
DictLitSwapped(k1, v1, k2, v2) ==
    [k \in {k1, k2} |-> IF k = k2 THEN v1 ELSE v2]
DictLit(k1, v1, k2, v2) ==
    [k \in {k1, k2} |-> IF k = k2 THEN v2 ELSE v1]

Range(f) == {f[i] : i \in DOMAIN f}

RECURSIVE Ascending(_)
Ascending(S) ==
    IF S = {} THEN <<>>
    ELSE LET m == CHOOSE x \in S : \A y \in S : x <= y
         IN  <<m>> \o Ascending(S \ {m})

\* Line 71: the values np.unique(final_points, return_counts=True) finds, in
\* ascending order.
Unique(fp) == Ascending(Range(fp))

\* Line 79: dict(zip(unique, counts)), each value found with its count.
Zipped(fp) ==
    [v \in Range(fp) |-> Cardinality({i \in DOMAIN fp : fp[i] = v})]

\* Lines 71-79: the tally d built from the absorption points.
TallySparse(fp, a, b, n) == Zipped(fp)
Tally(fp, a, b, n) ==
    LET unique == Unique(fp) IN
    IF Len(unique) = 1 /\ unique[1] = a THEN DictLit(a, n, b, 0)
    ELSE IF Len(unique) = 1 /\ unique[1] = b THEN DictLit(a, 0, b, n)
    ELSE Zipped(fp)

\* Line 81: d[a]/n.
Quotient(d, a, n) ==
    IF a \notin DOMAIN d THEN [kind |-> "KeyError"]
    ELSE IF n = 0 THEN [kind |-> "ZeroDivisionError"]
    ELSE [kind |-> "value", val |-> Frac(d[a], n)]

\* The frame of pj once d is known: line 81 returns or raises.
Finish(f, d) ==
    LET q == Quotient(d, f.a, f.n) IN
    [f EXCEPT !.d = d, !.out = q,
              !.pc = IF q.kind = "value" THEN "done" ELSE "raised"]

NoDict == [k \in {} |-> 0]

\* Line 67: seeds = np.arange(n); seeds[i] is i.
SeedOf(i) == i

\* Lines 53-69, up to the first call of rw_absorbing: the frame of pj.
\* calls counts the rw_absorbing calls made, seeds lists the seeds passed,
\* rng0 is the generator as pj found it.
PjEnter(j, a, b, r, n) ==
    LET f == [pc |-> "sim", j |-> j, a |-> a, b |-> b, r |-> r, n |-> n,
              i |-> 0, final_points |-> <<>>, d |-> NoDict, out |-> None,
              calls |-> 0, seeds |-> <<>>, rng0 |-> rng]
    IN  IF j = a THEN Finish(f, DictLit(a, n, b, 0))
        ELSE IF j = b THEN Finish(f, DictLit(a, 0, b, n))
        ELSE IF n <= 0 THEN Finish(f, Tally(<<>>, a, b, n))
        ELSE f

\* A top-level call pj(cfg.j, cfg.a, cfg.b, cfg.r, cfg.n).
PjCall ==
    /\ Idle
    /\ est' = PjEnter(cfg.j, cfg.a, cfg.b, cfg.r, cfg.n)
    /\ ret' = None
    /\ UNCHANGED <<thy, cfg, rng, mt, walk, dst, seen>>

\* Line 68: rw_absorbing(j, a, b, r, seeds[i]) for the next walker.
PjSpawn ==
    /\ est.pc = "sim"
    /\ walk.pc = "off"
    /\ walk' = Enter(est.j, est.a, est.b, est.r, SeedOf(est.i))
    /\ rng' = EnterRng(rng, est.j, est.a, est.b, est.r, SeedOf(est.i))
    /\ est' = [est EXCEPT !.calls = @ + 1,
                          !.seeds = Append(@, SeedOf(est.i))]
    /\ UNCHANGED <<thy, cfg, mt, dst, ret, seen>>

\* Lines 68-81: the walker's absorption point joins final_points; after the
\* last walker the tally is built and line 81 returns or raises.  A
\* ValueError of rw_absorbing leaves pj.
PjCollect ==
    /\ est.pc = "sim"
    /\ walk.pc \in {"done", "raised"}
    /\ est' = IF walk.pc = "raised"
              THEN [est EXCEPT !.pc = "raised", !.out = Outcome(walk)]
              ELSE LET fp == Append(est.final_points, walk.position)
                       f == [est EXCEPT !.final_points = fp, !.i = @ + 1]
                   IN  IF f.i = f.n
                       THEN Finish(f, Tally(fp, f.a, f.b, f.n))
                       ELSE f
    /\ walk' = Off
    /\ UNCHANGED <<thy, cfg, rng, mt, dst, ret, seen>>

\* The record of a completed pj call.
EstimateOf(f) == [j |-> f.j, a |-> f.a, b |-> f.b, r |-> f.r, n |-> f.n,
                  seeds |-> f.seeds, out |-> f.out]

\* Line 81 or a raise, back in the top-level caller.  The frame stays for
\* inspection until the next call.
PjReturn ==
    /\ est.pc \in {"done", "raised"}
    /\ dst.pc = "off"
    /\ ret' = est.out
    /\ seen' = IF seen.pj = None /\ est.pc = "done"
               THEN [seen EXCEPT !.pj = EstimateOf(est)] ELSE seen
    /\ est' = Off
    /\ UNCHANGED <<thy, cfg, rng, mt, walk, dst>>

----------------------------------------------------------------------------
\* distribution(a, b, r, n)

\* Lines 88-89: sites = b-a+1; np.zeros(sites) raises a ValueError for a
\* negative size.  starts lists the starting sites passed to pj, ests what
\* pj returned for them.
DistEnter(a, b, r, n) ==
    LET sites == b - a + 1
        f == [pc |-> "loop", a |-> a, b |-> b, r |-> r, n |-> n,
              sites |-> sites, i |-> 0, starts |-> <<>>, ests |-> <<>>,
              results |-> [k \in 1..sites |-> Zero], out |-> None]
    IN  IF sites < 0
        THEN [f EXCEPT !.pc = "raised",
                       !.out = [kind |-> "ValueError",
                                msg |-> "negative dimensions are not allowed"]]
        ELSE IF sites = 0
        THEN [f EXCEPT !.pc = "done",
                       !.out = [kind |-> "value", val |-> f.results]]
        ELSE f

\* A top-level call distribution(cfg.a, cfg.b, cfg.r, cfg.n).
DistCall ==
    /\ Idle
    /\ dst' = DistEnter(cfg.a, cfg.b, cfg.r, cfg.n)
    /\ ret' = None
    /\ UNCHANGED <<thy, cfg, rng, mt, walk, est, seen>>

\* Line 91: the starting site of iteration i.
SiteDescending(f) == f.b - f.i
Site(f) == f.a + f.i

\* Line 92: pj(j, a, b, r, n) for the next site.
DistSpawn ==
    /\ dst.pc = "loop"
    /\ est.pc = "off"
    /\ est' = PjEnter(Site(dst), dst.a, dst.b, dst.r, dst.n)
    /\ dst' = [dst EXCEPT !.starts = Append(@, Site(dst))]
    /\ UNCHANGED <<thy, cfg, rng, mt, walk, ret, seen>>

\* Lines 91-98: results[i] receives the estimate; after the last site the
\* array is returned.  An error of pj leaves distribution.
DistCollect ==
    /\ dst.pc = "loop"
    /\ est.pc \in {"done", "raised"}
    /\ dst' = IF est.pc = "raised"
              THEN [dst EXCEPT !.pc = "raised", !.out = est.out]
              ELSE LET res == [dst.results EXCEPT ![dst.i + 1] = est.out.val]
                       f == [dst EXCEPT !.results = res, !.i = @ + 1,
                                        !.ests = Append(@, est.out.val)]
                   IN  IF f.i = f.sites
                       THEN [f EXCEPT !.pc = "done",
                                !.out = [kind |-> "value", val |-> res]]
                       ELSE f
    /\ est' = Off
    /\ UNCHANGED <<thy, cfg, rng, mt, walk, ret, seen>>

\* Line 98 or a raise, back in the top-level caller.
DistReturn ==
    /\ dst.pc \in {"done", "raised"}
    /\ ret' = dst.out
    /\ dst' = Off
    /\ UNCHANGED <<thy, cfg, rng, mt, walk, est, seen>>

----------------------------------------------------------------------------
\* pj_as(r, N), pj_s(N), pj_as_thermo(r, N), called with Python numbers, for
\* which a division by zero and a zero raised to a negative power raise
\* ZeroDivisionError.

DivisionByZero == [kind |-> "ZeroDivisionError"]

Frame(fn, r, N) ==
    [pc |-> "loop", fn |-> fn, r |-> r, N |-> N, s |-> Zero, temp |-> Zero,
     i |-> 0, pp |-> [k \in 1..N |-> Zero], out |-> None]

Raise(f, e) == [f EXCEPT !.pc = "raised", !.out = e]

\* The frame at the loop condition: the array is returned after N rounds.
AtLoop(f) ==
    IF f.i = f.N
    THEN [f EXCEPT !.pc = "done", !.out = [kind |-> "value", val |-> f.pp]]
    ELSE f

\* Line 106: s = (1-r)/r.
Ratio(r) == Over(Minus(Unit, Prob(r)), Prob(r))

\* Lines 106-108 of pj_as.
PjAsEnter(r, N) ==
    LET f == Frame("pj_as", r, N) IN
    IF r = 0 THEN Raise(f, DivisionByZero)
    ELSE IF Ratio(r) = Zero /\ N - 1 < 0 THEN Raise(f, DivisionByZero)
    ELSE AtLoop([f EXCEPT !.s = Ratio(r), !.temp = Power(Ratio(r), N - 1)])

\* Line 111: pp[i] = (s**(j-1) - temp)/(1 - temp), with j = i + 1.
PjAsRound(f) ==
    IF Minus(Unit, f.temp) = Zero THEN Raise(f, DivisionByZero)
    ELSE AtLoop([f EXCEPT
            !.pp[f.i + 1] = Over(Minus(Power(f.s, f.i), f.temp),
                                 Minus(Unit, f.temp)),
            !.i = @ + 1])

\* Line 121 of pj_s.
PjSEnter(N) == AtLoop(Frame("pj_s", Half, N))

\* Line 123: pp[i] = (N - j)/(N - 1), with j = i + 1.
PjSRound(f) ==
    IF f.N - 1 = 0 THEN Raise(f, DivisionByZero)
    ELSE AtLoop([f EXCEPT !.pp[f.i + 1] = Frac(f.N - (f.i + 1), f.N - 1),
                          !.i = @ + 1])

\* Lines 132-136 of pj_as_thermo.
PjAsThermoEnter(r, N) ==
    LET f == Frame("pj_as_thermo", r, N) IN
    IF r <= Half
    THEN Raise(f, [kind |-> "ValueError", msg |-> "r must be > 0.5"])
    ELSE AtLoop([f EXCEPT !.s = Ratio(r)])

\* Line 139: pp[i] = s**(j-1), with j = i + 1.
PjAsThermoRound(f) ==
    AtLoop([f EXCEPT !.pp[f.i + 1] = Power(f.s, f.i), !.i = @ + 1])

\* Top-level calls pj_as(cfg.r, cfg.b), pj_s(cfg.b), pj_as_thermo(cfg.r,
\* cfg.b): cfg.b is the site count N.
PjAsCall ==
    /\ Idle
    /\ thy' = PjAsEnter(cfg.r, cfg.b)
    /\ ret' = None
    /\ UNCHANGED <<cfg, rng, mt, walk, est, dst, seen>>

PjSCall ==
    /\ Idle
    /\ thy' = PjSEnter(cfg.b)
    /\ ret' = None
    /\ UNCHANGED <<cfg, rng, mt, walk, est, dst, seen>>

PjAsThermoCall ==
    /\ Idle
    /\ thy' = PjAsThermoEnter(cfg.r, cfg.b)
    /\ ret' = None
    /\ UNCHANGED <<cfg, rng, mt, walk, est, dst, seen>>

\* One round of the loop of the function running.
PjAsStep ==
    /\ thy.pc = "loop" /\ thy.fn = "pj_as"
    /\ thy' = PjAsRound(thy)
    /\ UNCHANGED <<cfg, rng, mt, walk, est, dst, ret, seen>>

PjSStep ==
    /\ thy.pc = "loop" /\ thy.fn = "pj_s"
    /\ thy' = PjSRound(thy)
    /\ UNCHANGED <<cfg, rng, mt, walk, est, dst, ret, seen>>

PjAsThermoStep ==
    /\ thy.pc = "loop" /\ thy.fn = "pj_as_thermo"
    /\ thy' = PjAsThermoRound(thy)
    /\ UNCHANGED <<cfg, rng, mt, walk, est, dst, ret, seen>>

\* The array or the error, back in the top-level caller.
TheoryReturn ==
    /\ thy.pc \in {"done", "raised"}
    /\ ret' = thy.out
    /\ thy' = Off
    /\ UNCHANGED <<cfg, rng, mt, walk, est, dst, seen>>

----------------------------------------------------------------------------
\* Specifications

Configs == [j : Starts, a : Barriers, b : Barriers, r : Biases,
            seed : Seeds, n : Counts]

Init ==
    /\ cfg \in Configs
    /\ rng = Unseeded
    /\ mt = [s \in Seeds |-> <<>>]
    /\ walk = Off
    /\ est = Off
    /\ dst = Off
    /\ thy = Off
    /\ ret = None
    /\ seen = [rw |-> None, pj |-> None]

\* Every call, with one configuration per behaviour.
Next ==
    \/ RwCall \/ RwStep \/ RwReturn \/ OtherDraw \/ OtherSeed
    \/ PjCall \/ PjSpawn \/ PjCollect \/ PjReturn
    \/ DistCall \/ DistSpawn \/ DistCollect \/ DistReturn
    \/ PjAsCall \/ PjSCall \/ PjAsThermoCall
    \/ PjAsStep \/ PjSStep \/ PjAsThermoStep \/ TheoryReturn
Spec == Init /\ [][Next]_vars

\* Single walks: calls of rw_absorbing with one configuration.
InitWalk == Init /\ cfg.n = 1
NextWalk == RwCall \/ RwStep \/ RwReturn \/ OtherDraw \/ OtherSeed
SpecWalk == InitWalk /\ [][NextWalk]_vars

\* Estimates: calls of pj with one configuration.
InitPj == Init /\ cfg.seed = 0
NextPj == PjCall \/ PjSpawn \/ RwStep \/ PjCollect \/ PjReturn
SpecPj == InitPj /\ [][NextPj]_vars

\* Sweeps: calls of distribution with one configuration.
InitDist == Init /\ cfg.seed = 0 /\ cfg.j = cfg.a
NextDist ==
    \/ DistCall \/ DistSpawn \/ PjSpawn \/ RwStep \/ PjCollect
    \/ DistCollect \/ DistReturn
SpecDist == InitDist /\ [][NextDist]_vars

\* Repeated calls of rw_absorbing and pj with one configuration that passes
\* the checks, with other users of the global generator in between.
NextRepro ==
    \/ RwCall \/ RwStep \/ RwReturn \/ OtherDraw \/ OtherSeed
    \/ PjCall \/ PjSpawn \/ PjCollect \/ PjReturn
InitRepro == Init /\ cfg.a < cfg.b /\ cfg.a <= cfg.j /\ cfg.j <= cfg.b
                  /\ 0 <= cfg.r /\ cfg.r <= One /\ cfg.n >= 1
SpecRepro == InitRepro /\ [][NextRepro]_vars

\* Predictions: calls of pj_as, pj_s and pj_as_thermo with one r and one N.
TheoryBiases == -1..(One + 1)
InitTheory ==
    /\ cfg \in [j : {0}, a : {1}, b : Barriers, r : TheoryBiases,
                seed : {0}, n : {1}]
    /\ rng = Unseeded
    /\ mt = [s \in Seeds |-> <<>>]
    /\ walk = Off /\ est = Off /\ dst = Off /\ thy = Off
    /\ ret = None
    /\ seen = [rw |-> None, pj |-> None]
NextTheory ==
    \/ PjAsCall \/ PjSCall \/ PjAsThermoCall
    \/ PjAsStep \/ PjSStep \/ PjAsThermoStep \/ TheoryReturn
SpecTheory == InitTheory /\ [][NextTheory]_vars

----------------------------------------------------------------------------
\* Properties

ValidBounds(c) == c.a < c.b
ValidStart(c) == c.a <= c.j /\ c.j <= c.b
ValidBias(c) == 0 <= c.r /\ c.r <= One
Valid(c) == ValidBounds(c) /\ ValidStart(c) /\ ValidBias(c)
Interior(c) == c.a < c.j /\ c.j < c.b

Running == walk.pc \in {"loop", "done"}

\* C1: for a valid configuration the position of rw_absorbing stays within
\* [a, b] in every state; each loop step adds +1 when the draw is <= r and
\* -1 otherwise; a returned value is a or b; a start on a barrier is returned
\* unchanged with no draw taken.
C1_WalkStaysAndAbsorbs ==
    /\ Running =>
        /\ Valid(walk)
        /\ walk.a <= walk.position /\ walk.position <= walk.b
        /\ Len(walk.traj) = Len(walk.draws) + 1
        /\ walk.traj[1] = walk.j
        /\ walk.traj[Len(walk.traj)] = walk.position
        /\ \A k \in DOMAIN walk.draws :
              walk.traj[k + 1] =
                  walk.traj[k] + (IF walk.draws[k] <= walk.r THEN 1 ELSE -1)
        /\ walk.pc = "done" => walk.position \in {walk.a, walk.b}
        /\ walk.j \in {walk.a, walk.b} =>
              /\ walk.pc = "done"
              /\ walk.position = walk.j
              /\ walk.draws = <<>>
              /\ rng = [seeded |-> TRUE, seed |-> walk.seed, idx |-> 0]
    /\ ret.kind = "value" => ret.val \in {cfg.a, cfg.b}

\* A walk that stepped both ways and was absorbed.
C1_Witness ==
    /\ walk.pc = "done"
    /\ walk.r = Half
    /\ \E k \in DOMAIN walk.draws : walk.draws[k] <= walk.r
    /\ \E k \in DOMAIN walk.draws : walk.draws[k] > walk.r

\* C2: rw_absorbing raises ValueError exactly when a >= b, j < a, j > b,
\* r < 0 or r > 1; it raises before the generator is seeded and before any
\* position is taken; a configuration meeting the preconditions raises
\* nothing.
C2_RaisesExactlyOnInvalid ==
    /\ walk.pc # "off" =>
        /\ walk.pc = "raised" <=> ~Valid(cfg)
        /\ walk.pc = "raised" =>
              /\ rng = walk.rng0
              /\ walk.traj = <<>>
              /\ walk.draws = <<>>
    /\ ret # None =>
        /\ ret.kind = "ValueError" <=> ~Valid(cfg)
        /\ ret.kind = "value" <=> Valid(cfg)

\* A start above the upper barrier was refused with the generator in use.
C2_Witness ==
    /\ walk.pc = "raised"
    /\ cfg.a < cfg.b
    /\ cfg.j > cfg.b
    /\ ValidBias(cfg)
    /\ rng.seeded
    /\ rng.idx > 0

Monotone(t) ==
    \/ \A k \in 1..(Len(t) - 1) : t[k + 1] > t[k]
    \/ \A k \in 1..(Len(t) - 1) : t[k + 1] < t[k]

\* C3: for r = 0 and for r = 1, whatever values are drawn from [0,1), the
\* walk moves monotonically and takes at most b - a steps.
C3_MonotoneAtExtremeBias ==
    (Running /\ walk.r \in {0, One}) =>
        /\ Monotone(walk.traj)
        /\ Len(walk.draws) <= walk.b - walk.a

CountAt(fp, v) == Cardinality({i \in DOMAIN fp : fp[i] = v})

\* C4: in the general case of pj (a < j < b, n >= 1, r in [0,1]) the call
\* does not raise, and once the n walks have run the tally has an entry for
\* both barriers, the entries are the numbers of walks absorbed there (0 for
\* a barrier that absorbed none), they sum to n, and the estimate is d[a]/n,
\* within [0,1].
C4_TallyComplete ==
    (est.pc # "off" /\ Valid(est) /\ Interior(est) /\ est.n >= 1) =>
        /\ est.pc # "raised"
        /\ est.pc = "done" =>
              /\ Len(est.final_points) = est.n
              /\ DOMAIN est.d = {est.a, est.b}
              /\ est.d[est.a] = CountAt(est.final_points, est.a)
              /\ est.d[est.b] = CountAt(est.final_points, est.b)
              /\ est.d[est.a] + est.d[est.b] = est.n
              /\ est.out = [kind |-> "value",
                            val |-> Frac(est.d[est.a], est.n)]
              /\ InUnitInterval(est.out.val)

\* Two walkers, both absorbed at the upper barrier.
C4_Witness ==
    /\ est.pc = "done"
    /\ Interior(est)
    /\ est.n = 2
    /\ est.r = Half
    /\ est.final_points = <<est.b, est.b>>
    /\ est.d[est.a] = 0

\* C5: pj raises ValueError whenever n <= 0, for every start, and returns no
\* value.
C5_RejectsNonPositiveN ==
    (cfg.n <= 0 /\ ret # None) => ret.kind = "ValueError"

\* C6: for n >= 1, pj raises ValueError for every configuration that breaks
\* a precondition of rw_absorbing, also when the start is on a barrier.
C6_RejectsInvalidConfiguration ==
    (cfg.n >= 1 /\ ~Valid(cfg) /\ ret # None) => ret.kind = "ValueError"

\* C7: for a < b, r in [0,1] and n >= 1, pj returns exactly 1 when j = a and
\* exactly 0 when j = b, without calling rw_absorbing and without touching
\* the generator.
C7_BoundaryStartsAreExact ==
    (est.pc # "off" /\ ValidBounds(est) /\ ValidBias(est) /\ est.n >= 1
        /\ est.j \in {est.a, est.b}) =>
        /\ est.pc = "done"
        /\ est.out = [kind |-> "value",
                      val |-> IF est.j = est.a THEN Unit ELSE Zero]
        /\ est.calls = 0
        /\ walk = Off
        /\ rng = est.rng0

\* pj answered 0 for a start on the upper barrier.
C7_Witness ==
    /\ est.pc = "done"
    /\ ValidBounds(est) /\ ValidBias(est) /\ est.n >= 1
    /\ est.j = est.b
    /\ est.out.val = Zero

IsPrefix(t, u) ==
    /\ Len(t) <= Len(u)
    /\ \A k \in DOMAIN t : t[k] = u[k]

\* C8: a run of rw_absorbing with the configuration and seed of an earlier
\* completed run follows the same trajectory to the same outcome, whatever
\* the generator held before; a call of pj with the configuration and n of
\* an earlier completed call passes the same seeds and returns the same
\* estimate; the seeds pj passes are 0..n-1, pairwise distinct.
C8_Reproducible ==
    /\ (seen.rw # None /\ Running /\ walk.seed = seen.rw.seed) =>
        /\ IsPrefix(walk.traj, seen.rw.traj)
        /\ walk.pc = "done" =>
              /\ walk.traj = seen.rw.traj
              /\ Outcome(walk) = seen.rw.out
    /\ (seen.pj # None /\ est.pc = "done") =>
        /\ est.seeds = seen.pj.seeds
        /\ est.out = seen.pj.out
    /\ est.pc \in {"sim", "done"} =>
        /\ \A k \in DOMAIN est.seeds : est.seeds[k] = k - 1
        /\ (est.pc = "done" /\ est.calls > 0) => Len(est.seeds) = est.n

\* A second pj call finished after a first one, with a walk in between that
\* left the generator elsewhere.
C8_Witness ==
    /\ seen.pj # None
    /\ seen.rw # None
    /\ est.pc = "done"
    /\ est.n = 2
    /\ est.calls = 2
    /\ est.rng0.seeded
    /\ est.rng0.seed = seen.rw.seed
    /\ est.rng0.idx > 0
    /\ Len(seen.rw.traj) > 2

\* C9: for a < b, r in [0,1] and n >= 1, distribution calls pj once per
\* start a, a+1, ..., b in this order and returns an array of b - a + 1
\* elements whose element i is what pj returned for start a + i; the first
\* element is 1, the last is 0 and every element lies in [0,1].
C9_DistributionIndexed ==
    (dst.pc # "off" /\ ValidBounds(dst) /\ ValidBias(dst) /\ dst.n >= 1) =>
        /\ dst.pc # "raised"
        /\ \A k \in DOMAIN dst.starts : dst.starts[k] = dst.a + k - 1
        /\ dst.pc = "done" =>
              /\ Len(dst.starts) = dst.b - dst.a + 1
              /\ dst.out.kind = "value"
              /\ Len(dst.out.val) = dst.b - dst.a + 1
              /\ \A k \in DOMAIN dst.out.val :
                    /\ dst.out.val[k] = dst.ests[k]
                    /\ InUnitInterval(dst.out.val[k])
              /\ dst.out.val[1] = Unit
              /\ dst.out.val[Len(dst.out.val)] = Zero

\* A sweep over four sites finished with an interior estimate of 1/2.
C9_Witness ==
    /\ dst.pc = "done"
    /\ dst.b - dst.a = 3
    /\ dst.n = 2
    /\ dst.r = Half
    /\ dst.out.val[2] = Frac(1, 2)

Finished == thy.pc \in {"done", "raised"}

\* C10: the predictions refuse their degenerate inputs with ValueError:
\* pj_as for r = 0.5 and for r = 0, pj_s for N = 1, pj_as_thermo for
\* r <= 0.5; none of these calls returns an array.
C10_DegenerateInputsRejected ==
    Finished =>
        /\ (thy.fn = "pj_as" /\ thy.r \in {0, Half}) =>
              thy.out.kind = "ValueError"
        /\ (thy.fn = "pj_s" /\ thy.N = 1) => thy.out.kind = "ValueError"
        /\ (thy.fn = "pj_as_thermo" /\ thy.r <= Half) =>
              thy.out.kind = "ValueError"

====
